---- MODULE Spec2Model ----
(***************************************************************************)
(* keepalived BFD child process handling (keepalived/bfd/bfd_daemon.c).    *)
(*                                                                         *)
(* Two processes are modelled: the supervisor (the parent keepalived       *)
(* process, which runs start_bfd_child and bfd_respawn_thread) and the     *)
(* BFD worker it forks (the child half of start_bfd_child, start_bfd,      *)
(* reload_bfd_thread, stop_bfd and the signal handlers).  The supervisor's *)
(* handlers are atomic actions; the worker advances one statement at a     *)
(* time (pc), because signals reach it asynchronously between statements.  *)
(***************************************************************************)
EXTENDS Naturals, Sequences, FiniteSets

(* ------------------------------ bounds --------------------------------- *)
\* forks the supervisor may attempt (worker pids are 1..MaxLaunches)
MaxLaunches == 3
\* runtime-state generations one worker may build (1 start + reloads)
MaxGen == 3
\* control events a signal may add to a run loop's queue
MaxEvents == 2

(* --------------------------- program constants ------------------------- *)
\* exit statuses are kept symbolic: "0" is exit(0) and EXIT_SUCCESS
EXIT_SUCCESS == "0"
KEEPALIVED_EXIT_FATAL == "KEEPALIVED_EXIT_FATAL"
RESPAWN_TIMER == "RESPAWN_TIMER"
THREAD_CHILD_TIMEOUT == "THREAD_CHILD_TIMEOUT"
THREAD_CHILD == "THREAD_CHILD"
NULL == 0

Signals == {"SIGHUP", "SIGINT", "SIGTERM", "SIGPIPE", "SIGCHLD"}
Kinds == {"global_data", "bfd_data", "bfd_buffer"}

VARIABLES
    \* ---- supervisor (parent process) ----
    dont_respawn,   \* __test_bit(DONT_RESPAWN_BIT, &debug)
    supState,       \* "RUNNING" | "STOPPING" (terminate raised) | "STOPPED"
    bfd_child,      \* pid of the worker last launched, NULL before any
    supChildren,    \* child watchers registered with the supervisor's master
    launches,       \* forks that succeeded so far (the last pid handed out)
    forks,          \* calls of fork() so far
    supTrace,       \* what the supervisor's last handler did, in order
    deaths,         \* genuine deaths the watcher has handled
    respawnCalls,   \* calls of start_bfd_child made by the watcher
    respawnLogs,    \* "died: Respawning" log entries
    exitingLogs,    \* "died: Exiting" log entries
    \* ---- worker (child process) ----
    wpid,           \* getpid() of the current worker, NULL when none
    pc,             \* the worker's position
    caller,         \* who called start_bfd: "child" | "reload"
    status,         \* the argument of stop_bfd
    exitStatus,     \* "none" | the status given to exit() | "killed"
    reloading,      \* the reload flag (SET_RELOAD / UNSET_RELOAD)
    handlers,       \* signal -> handler installed in the worker
    master,         \* the worker's run loop: "inherited" | "live" | "freed"
                    \* (a freed loop leaves the pointer dangling, not "NULL")
    made,           \* thread_make_master calls in this worker
    events,         \* the run loop's queue of events
    dispatcher,     \* generation whose protocol engine is scheduled, or NULL
    global_data,    \* generation the pointer refers to, or NULL
    bfd_data,
    old_bfd_data,
    nextGen,        \* the generation the next start_bfd builds
    built,          \* the last generation start_bfd constructed in full
    live,           \* allocated runtime-state resources, <<kind, generation>>
    misfree,        \* release calls made on something not allocated
    acqOrder,       \* kinds the last start_bfd acquired, in order
    reloads,        \* reloads completed by this worker
    trace,          \* stages of the current start / reload / stop, in order
    delivered,      \* signal delivered to the worker since its last statement
    logOpen,        \* the worker's log channel is open
    logOps,         \* openlog / closelog calls in this worker
    stdFdOpen,      \* the standard file descriptors are open
    wlog,           \* messages the current worker has logged, in order
    \* ---- shared through the file system ----
    pidfile,        \* pid held by bfd_pidfile, NULL when the file is absent
    pidWrites       \* pidfile_write / pidfile_rm calls by the current worker

supVars == <<dont_respawn, supState, bfd_child, supChildren, launches, forks,
             supTrace, deaths, respawnCalls, respawnLogs, exitingLogs>>
ctlVars == <<wpid, pc, caller, status, exitStatus, reloading, reloads, trace>>
sigVars == <<handlers, master, made, events, dispatcher>>
dataVars == <<global_data, bfd_data, old_bfd_data, nextGen, built, live,
              misfree, acqOrder>>
idVars == <<logOpen, logOps, stdFdOpen, wlog, pidfile, pidWrites>>
workerVars == <<ctlVars, sigVars, dataVars, idVars, delivered>>
vars == <<supVars, workerVars>>

NoHandlers == [s \in Signals |-> "none"]
InheritedHandlers == [s \in Signals |-> "inherited"]

Init ==
    /\ dont_respawn \in BOOLEAN
    /\ supState = "RUNNING"
    /\ bfd_child = NULL
    /\ supChildren = <<>>
    /\ launches = 0
    /\ forks = 0
    /\ supTrace = <<>>
    /\ deaths = 0
    /\ respawnCalls = 0
    /\ respawnLogs = 0
    /\ exitingLogs = 0
    /\ wpid = NULL
    /\ pc = "none"
    /\ caller = "child"
    /\ status = EXIT_SUCCESS
    /\ exitStatus = "none"
    /\ reloading = FALSE
    /\ reloads = 0
    /\ trace = <<>>
    /\ delivered = "none"
    /\ handlers = NoHandlers
    /\ master = "inherited"
    /\ made = 0
    /\ events = <<>>
    /\ dispatcher = NULL
    /\ global_data = NULL
    /\ bfd_data = NULL
    /\ old_bfd_data = NULL
    /\ nextGen = 1
    /\ built = 0
    /\ live = {}
    /\ misfree = {}
    /\ acqOrder = <<>>
    /\ logOpen = FALSE
    /\ logOps = 0
    /\ stdFdOpen = FALSE
    /\ wlog = <<>>
    /\ pidfile = NULL
    /\ pidWrites = 0

(* ======================= supervisor: start_bfd_child =================== *)

\* The worker process as fork() leaves it: a copy of the supervisor, which
\* holds no BFD runtime state; r is the reload flag the parent had.
ForkedChild(pid, r) ==
    /\ wpid' = pid
    /\ pc' = "c_identity"
    /\ caller' = "child"
    /\ status' = EXIT_SUCCESS
    /\ exitStatus' = "none"
    /\ reloading' = r
    /\ reloads' = 0
    /\ trace' = <<"fork">>
    /\ delivered' = "none"
    /\ handlers' = InheritedHandlers
    /\ master' = "inherited"
    /\ made' = 0
    /\ events' = <<>>
    /\ dispatcher' = NULL
    /\ global_data' = NULL
    /\ bfd_data' = NULL
    /\ old_bfd_data' = NULL
    /\ nextGen' = 1
    /\ built' = 0
    /\ live' = {}
    /\ misfree' = {}
    /\ acqOrder' = <<>>
    /\ logOpen' = FALSE
    /\ logOps' = 0
    /\ stdFdOpen' = TRUE
    /\ wlog' = <<>>
    /\ pidWrites' = 0
    /\ UNCHANGED pidfile

\* start_bfd_child with the assignment of bfd_child (line 250) left out.
StartBfdChild_NoRecord(tr, regs) ==
    /\ forks < MaxLaunches
    /\ forks' = forks + 1
    /\ \/ /\ supTrace' = tr \o <<"start_bfd_child", "fork:error",
                                "log:fork error", "return:-1">>
          /\ supChildren' = regs
          /\ UNCHANGED <<bfd_child, launches, workerVars>>
       \/ /\ launches' = launches + 1
          /\ UNCHANGED bfd_child
          /\ supChildren' =
                 Append(regs, [pid |-> launches + 1, timer |-> RESPAWN_TIMER])
          /\ supTrace' = tr \o <<"start_bfd_child", "fork:parent",
                                "log:Starting", "thread_add_child",
                                "return:0">>
          /\ \E r \in BOOLEAN : ForkedChild(launches + 1, r)

\* start_bfd_child as the supervisor sees it (lines 244-257): fork, then on
\* failure log and return -1, on success record the pid and register the
\* watcher.  tr is what the calling handler did before the call, regs the
\* watchers registered when it is called.
StartBfdChild(tr, regs) ==
    /\ forks < MaxLaunches
    /\ forks' = forks + 1
    /\ \/ /\ supTrace' = tr \o <<"start_bfd_child", "fork:error",
                                "log:fork error", "return:-1">>
          /\ supChildren' = regs
          /\ UNCHANGED <<bfd_child, launches, workerVars>>
       \/ /\ launches' = launches + 1
          /\ bfd_child' = launches + 1
          /\ supChildren' =
                 Append(regs, [pid |-> launches + 1, timer |-> RESPAWN_TIMER])
          /\ supTrace' = tr \o <<"start_bfd_child", "fork:parent",
                                "bfd_child", "log:Starting",
                                "thread_add_child", "return:0">>
          /\ \E r \in BOOLEAN : ForkedChild(launches + 1, r)

\* What the supervisor's main program does with the value start_bfd_child
\* returns to it: -1 (no launch was made) is fatal and the supervisor starts
\* to terminate; the main program is not part of bfd_daemon.c.
LaunchErrorIsFatal ==
    supState' = IF launches' = launches THEN "STOPPING" ELSE supState

\* The supervisor's main program launches the worker once at startup.
InitialLaunch ==
    /\ supState = "RUNNING"
    /\ forks = 0
    /\ StartBfdChild(<<>>, supChildren)
    /\ LaunchErrorIsFatal
    /\ UNCHANGED <<dont_respawn, deaths, respawnCalls, respawnLogs,
                   exitingLogs>>

(* ===================== supervisor: bfd_respawn_thread ================== *)

RemoveAt(q, i) == [j \in 1..(Len(q) - 1) |-> IF j < i THEN q[j] ELSE q[j + 1]]

WorkerDead(pid) == wpid = pid /\ pc \in {"exited", "dead"}

\* bfd_respawn_thread with the test of DONT_RESPAWN_BIT (line 220) inverted.
bfd_respawn_thread_Inverted(i, type) ==
    LET pid == supChildren[i].pid
        rest == RemoveAt(supChildren, i)
    IN  IF type = THREAD_CHILD_TIMEOUT
        THEN /\ supChildren' =
                    Append(rest, [pid |-> pid, timer |-> RESPAWN_TIMER])
             /\ supTrace' = <<"thread_add_child", "return:0">>
             /\ UNCHANGED <<dont_respawn, supState, bfd_child, launches,
                            forks, deaths, respawnCalls, respawnLogs,
                            exitingLogs, workerVars>>
        ELSE IF dont_respawn
        THEN /\ deaths' = deaths + 1
             /\ respawnLogs' = respawnLogs + 1
             /\ respawnCalls' = respawnCalls + 1
             /\ StartBfdChild(<<"log:Respawning">>, rest)
             /\ UNCHANGED <<dont_respawn, supState, exitingLogs>>
        ELSE /\ deaths' = deaths + 1
             /\ exitingLogs' = exitingLogs + 1
             /\ supTrace' = <<"log:Exiting", "raise:SIGTERM", "return:0">>
             /\ supState' = "STOPPING"
             /\ supChildren' = rest
             /\ UNCHANGED <<dont_respawn, bfd_child, launches, forks,
                            respawnCalls, respawnLogs, workerVars>>

\* bfd_respawn_thread re-arming the watcher on a tick without RESPAWN_TIMER.
bfd_respawn_thread_TickNoTimer(i, type) ==
    LET pid == supChildren[i].pid
        rest == RemoveAt(supChildren, i)
    IN  IF type = THREAD_CHILD_TIMEOUT
        THEN /\ supChildren' =
                    Append(rest, [pid |-> pid, timer |-> "TIMER_NEVER"])
             /\ supTrace' = <<"thread_add_child", "return:0">>
             /\ UNCHANGED <<dont_respawn, supState, bfd_child, launches,
                            forks, deaths, respawnCalls, respawnLogs,
                            exitingLogs, workerVars>>
        ELSE IF ~dont_respawn
        THEN /\ deaths' = deaths + 1
             /\ respawnLogs' = respawnLogs + 1
             /\ respawnCalls' = respawnCalls + 1
             /\ StartBfdChild(<<"log:Respawning">>, rest)
             /\ UNCHANGED <<dont_respawn, supState, exitingLogs>>
        ELSE /\ deaths' = deaths + 1
             /\ exitingLogs' = exitingLogs + 1
             /\ supTrace' = <<"log:Exiting", "raise:SIGTERM", "return:0">>
             /\ supState' = "STOPPING"
             /\ supChildren' = rest
             /\ UNCHANGED <<dont_respawn, bfd_child, launches, forks,
                            respawnCalls, respawnLogs, workerVars>>

\* bfd_respawn_thread (lines 204-230), called by the supervisor's run loop
\* with the watcher thread supChildren[i], which the run loop has taken off
\* its child list, and the thread's type.
bfd_respawn_thread(i, type) ==
    LET pid == supChildren[i].pid
        rest == RemoveAt(supChildren, i)
    IN  IF type = THREAD_CHILD_TIMEOUT
        THEN /\ supChildren' =
                    Append(rest, [pid |-> pid, timer |-> RESPAWN_TIMER])
             /\ supTrace' = <<"thread_add_child", "return:0">>
             /\ UNCHANGED <<dont_respawn, supState, bfd_child, launches,
                            forks, deaths, respawnCalls, respawnLogs,
                            exitingLogs, workerVars>>
        ELSE IF ~dont_respawn
        THEN /\ deaths' = deaths + 1
             /\ respawnLogs' = respawnLogs + 1
             /\ respawnCalls' = respawnCalls + 1
             /\ StartBfdChild(<<"log:Respawning">>, rest)
             /\ UNCHANGED <<dont_respawn, supState, exitingLogs>>
        ELSE /\ deaths' = deaths + 1
             /\ exitingLogs' = exitingLogs + 1
             /\ supTrace' = <<"log:Exiting", "raise:SIGTERM", "return:0">>
             /\ supState' = "STOPPING"
             /\ supChildren' = rest
             /\ UNCHANGED <<dont_respawn, bfd_child, launches, forks,
                            respawnCalls, respawnLogs, workerVars>>

\* The watchdog timer of a registered watcher expires: a tick.
WatchdogTick ==
    /\ supState # "STOPPED"
    /\ \E i \in 1..Len(supChildren) :
           bfd_respawn_thread(i, THREAD_CHILD_TIMEOUT)

\* SIGCHLD for a watched worker that has died: a genuine death.
WorkerDeathObserved ==
    /\ supState # "STOPPED"
    /\ \E i \in 1..Len(supChildren) :
           /\ WorkerDead(supChildren[i].pid)
           /\ bfd_respawn_thread(i, THREAD_CHILD)

\* A terminate request reaches the supervisor from outside (SignalRouter:
\* terminate-request -> TerminateEvent on the supervisor's run loop).
SupervisorTerminateRequest ==
    /\ supState = "RUNNING"
    /\ supState' = "STOPPING"
    /\ supTrace' = <<"signal:SIGTERM">>
    /\ UNCHANGED <<dont_respawn, bfd_child, supChildren, launches, forks,
                   deaths, respawnCalls, respawnLogs, exitingLogs,
                   workerVars>>

\* The supervisor's run loop takes the terminate event and the process ends.
SupervisorStop ==
    /\ supState = "STOPPING"
    /\ supState' = "STOPPED"
    /\ supTrace' = <<"terminate">>
    /\ UNCHANGED <<dont_respawn, bfd_child, supChildren, launches, forks,
                   deaths, respawnCalls, respawnLogs, exitingLogs,
                   workerVars>>

(* ========================= worker: helpers ============================= *)

Alive == pc \notin {"none", "exited", "dead"}

\* One statement of the worker that leaves the other control state alone.
Step(from, to, stage) ==
    /\ pc = from
    /\ pc' = to
    /\ trace' = Append(trace, stage)
    /\ delivered' = "none"
    /\ UNCHANGED <<wpid, caller, status, exitStatus, reloading, reloads>>

\* free_global_data(p), free_bfd_data(p): release the object p refers to;
\* a call on NULL or on an object no longer allocated is recorded.
Release(kind, p) ==
    IF <<kind, p>> \in live
    THEN live' = live \ {<<kind, p>>} /\ UNCHANGED misfree
    ELSE misfree' = misfree \cup {<<kind, p>>} /\ UNCHANGED live

\* free_bfd_buffer(): release the buffer the BFD code currently holds.
ReleaseBuffer ==
    LET held == {r \in live : r[1] = "bfd_buffer"}
    IN  IF held # {}
        THEN live' = live \ held /\ UNCHANGED misfree
        ELSE misfree' = misfree \cup {<<"bfd_buffer", NULL>>}
             /\ UNCHANGED live

\* signal_handler_destroy(): no handler is left registered.
signal_handler_destroy == handlers' = NoHandlers

\* thread_destroy_master(master): the run loop and all it queued are gone.
thread_destroy_master ==
    /\ master' = "freed"
    /\ events' = <<>>

\* master = thread_make_master(): a fresh, empty run loop.
thread_make_master ==
    /\ master' = "live"
    /\ made' = made + 1
    /\ events' = <<>>

(* =================== worker: start_bfd_child, child half =============== *)

\* lines 258-282: role and identity; the log channel is opened
ChildIdentity ==
    /\ Step("c_identity", "c_sigdestroy1", "openlog")
    /\ logOpen' = TRUE
    /\ logOps' = logOps + 1
    /\ UNCHANGED <<sigVars, dataVars, stdFdOpen, wlog, pidfile, pidWrites,
                   supVars>>

\* line 284
ChildSignalDestroy1 ==
    /\ Step("c_sigdestroy1", "c_pidfile", "signal_handler_destroy")
    /\ signal_handler_destroy
    /\ UNCHANGED <<master, made, events, dispatcher, dataVars, idVars,
                   supVars>>

\* ChildPidfile with the exit(0) of line 306 left out: the failure is
\* logged and the worker carries on.
ChildPidfile_IgnoresFailure ==
    /\ pc = "c_pidfile"
    /\ delivered' = "none"
    /\ pc' = "c_sigdestroy2"
    /\ \/ /\ trace' = Append(trace, "pidfile_write")
          /\ pidfile' = wpid
          /\ pidWrites' = pidWrites + 1
          /\ UNCHANGED wlog
       \/ /\ trace' = trace \o <<"pidfile_write:fail",
                                 "log:cannot write pidfile">>
          /\ wlog' = Append(wlog, "cannot write pidfile")
          /\ UNCHANGED <<pidfile, pidWrites>>
    /\ UNCHANGED <<wpid, caller, status, exitStatus, reloading, reloads,
                   sigVars, dataVars, logOpen, logOps, stdFdOpen, supVars>>

\* lines 302-307: pidfile_write succeeds, or fails and the process exits
ChildPidfile ==
    /\ pc = "c_pidfile"
    /\ delivered' = "none"
    /\ \/ /\ pc' = "c_sigdestroy2"
          /\ trace' = Append(trace, "pidfile_write")
          /\ pidfile' = wpid
          /\ pidWrites' = pidWrites + 1
          /\ UNCHANGED <<exitStatus, wlog>>
       \/ /\ pc' = "exited"
          /\ trace' = trace \o <<"pidfile_write:fail",
                                 "log:cannot write pidfile", "exit">>
          /\ wlog' = Append(wlog, "cannot write pidfile")
          /\ exitStatus' = "0"
          /\ UNCHANGED <<pidfile, pidWrites>>
    /\ UNCHANGED <<wpid, caller, status, reloading, reloads, sigVars,
                   dataVars, logOpen, logOps, stdFdOpen, supVars>>

\* line 310
ChildSignalDestroy2 ==
    /\ Step("c_sigdestroy2", "c_destroy_master", "signal_handler_destroy")
    /\ signal_handler_destroy
    /\ UNCHANGED <<master, made, events, dispatcher, dataVars, idVars,
                   supVars>>

\* line 311: the run loop inherited from the supervisor is destroyed
ChildDestroyMaster ==
    /\ Step("c_destroy_master", "c_make_master", "thread_destroy_master")
    /\ thread_destroy_master
    /\ UNCHANGED <<handlers, made, dispatcher, dataVars, idVars, supVars>>

\* lines 312-321
ChildMakeMaster ==
    /\ Step("c_make_master", "c_unset_reload", "thread_make_master")
    /\ thread_make_master
    /\ UNCHANGED <<handlers, dispatcher, dataVars, idVars, supVars>>

\* start_bfd_child without the UNSET_RELOAD of line 327.
ChildUnsetReload_Skipped ==
    /\ pc = "c_unset_reload"
    /\ delivered' = "none"
    /\ pc' = "c_signal_init"
    /\ trace' = Append(trace, "UNSET_RELOAD")
    /\ UNCHANGED <<wpid, caller, status, exitStatus, reloading, reloads,
                   sigVars, dataVars, idVars, supVars>>

\* line 327: UNSET_RELOAD
ChildUnsetReload ==
    /\ pc = "c_unset_reload"
    /\ delivered' = "none"
    /\ pc' = "c_signal_init"
    /\ trace' = Append(trace, "UNSET_RELOAD")
    /\ reloading' = FALSE
    /\ UNCHANGED <<wpid, caller, status, exitStatus, reloads, sigVars,
                   dataVars, idVars, supVars>>

\* bfd_signal_init (lines 157-165)
bfd_signal_init ==
    handlers' = [s \in Signals |->
                    CASE s = "SIGHUP" -> "sighup_bfd"
                      [] s \in {"SIGINT", "SIGTERM"} -> "sigend_bfd"
                      [] s = "SIGPIPE" -> "ignore"
                      [] OTHER -> "none"]

\* lines 330-333: register the handlers, then call start_bfd
ChildSignalInit ==
    /\ pc = "c_signal_init"
    /\ delivered' = "none"
    /\ pc' = "s_global"
    /\ caller' = "child"
    /\ trace' = Append(trace, "bfd_signal_init")
    /\ bfd_signal_init
    /\ UNCHANGED <<wpid, status, exitStatus, reloading, reloads, master,
                   made, events, dispatcher, dataVars, idVars, supVars>>

(* ============================ worker: start_bfd ======================== *)

\* line 121: global_data = alloc_global_data()
StartAllocGlobal ==
    /\ Step("s_global", "s_bfd", "alloc_global_data")
    /\ global_data' = nextGen
    /\ live' = live \cup {<<"global_data", nextGen>>}
    /\ acqOrder' = <<"global_data">>
    /\ UNCHANGED <<bfd_data, old_bfd_data, nextGen, built, misfree, sigVars,
                   idVars, supVars>>

\* StartAllocBfd with a cleanup of its own on failure, which enters the
\* stop sequence after the signal and pidfile stages.
StartAllocBfd_ShortCleanup ==
    /\ pc = "s_bfd"
    /\ delivered' = "none"
    /\ \/ /\ pc' = "s_buffer"
          /\ trace' = Append(trace, "alloc_bfd_data")
          /\ bfd_data' = nextGen
          /\ live' = live \cup {<<"bfd_data", nextGen>>}
          /\ acqOrder' = Append(acqOrder, "bfd_data")
          /\ UNCHANGED status
       \/ /\ pc' = "t_global"
          /\ trace' = <<>>
          /\ bfd_data' = NULL
          /\ status' = KEEPALIVED_EXIT_FATAL
          /\ UNCHANGED <<live, acqOrder>>
    /\ UNCHANGED <<wpid, caller, exitStatus, reloading, reloads, global_data,
                   old_bfd_data, nextGen, built, misfree, sigVars, idVars,
                   supVars>>

\* StartAllocBfd passing EXIT_SUCCESS to stop_bfd when the allocation fails.
StartAllocBfd_ExitsZero ==
    /\ pc = "s_bfd"
    /\ delivered' = "none"
    /\ \/ /\ pc' = "s_buffer"
          /\ trace' = Append(trace, "alloc_bfd_data")
          /\ bfd_data' = nextGen
          /\ live' = live \cup {<<"bfd_data", nextGen>>}
          /\ acqOrder' = Append(acqOrder, "bfd_data")
          /\ UNCHANGED status
       \/ /\ pc' = "t_sig"
          /\ trace' = <<>>
          /\ bfd_data' = NULL
          /\ status' = EXIT_SUCCESS
          /\ UNCHANGED <<live, acqOrder>>
    /\ UNCHANGED <<wpid, caller, exitStatus, reloading, reloads, global_data,
                   old_bfd_data, nextGen, built, misfree, sigVars, idVars,
                   supVars>>

\* lines 122-125: bfd_data = alloc_bfd_data(); on NULL, stop_bfd(FATAL)
StartAllocBfd ==
    /\ pc = "s_bfd"
    /\ delivered' = "none"
    /\ \/ /\ pc' = "s_buffer"
          /\ trace' = Append(trace, "alloc_bfd_data")
          /\ bfd_data' = nextGen
          /\ live' = live \cup {<<"bfd_data", nextGen>>}
          /\ acqOrder' = Append(acqOrder, "bfd_data")
          /\ UNCHANGED status
       \/ /\ pc' = "t_sig"
          /\ trace' = <<>>
          /\ bfd_data' = NULL
          /\ status' = KEEPALIVED_EXIT_FATAL
          /\ UNCHANGED <<live, acqOrder>>
    /\ UNCHANGED <<wpid, caller, exitStatus, reloading, reloads, global_data,
                   old_bfd_data, nextGen, built, misfree, sigVars, idVars,
                   supVars>>

\* line 127: alloc_bfd_buffer()
StartAllocBuffer ==
    /\ Step("s_buffer", "s_init", "alloc_bfd_buffer")
    /\ live' = live \cup {<<"bfd_buffer", nextGen>>}
    /\ acqOrder' = Append(acqOrder, "bfd_buffer")
    /\ UNCHANGED <<global_data, bfd_data, old_bfd_data, nextGen, built,
                   misfree, sigVars, idVars, supVars>>

\* lines 129-137: parse the configuration, complete it, schedule the
\* protocol engine's start on the run loop, and return to the caller
StartInit ==
    /\ Step("s_init", IF caller = "child" THEN "sched" ELSE "r_free_old",
            "thread_add_event:bfd_dispatcher_init")
    /\ events' = Append(events, "dispatcher_init")
    /\ built' = nextGen
    /\ nextGen' = nextGen + 1
    /\ UNCHANGED <<global_data, bfd_data, old_bfd_data, live, misfree,
                   acqOrder, handlers, master, made, dispatcher, idVars,
                   supVars>>

(* ======================== worker: signal handlers ====================== *)

SignalEvents == Len(SelectSeq(events, LAMBDA e : e # "dispatcher_init"))

\* sighup_bfd queueing the reload event twice.
sighup_bfd_Twice == events' = events \o <<"reload", "reload">>

\* sighup_bfd (lines 140-145)
sighup_bfd == events' = Append(events, "reload")

\* sigend_bfd (lines 148-154)
sigend_bfd ==
    IF master # "NULL"
    THEN events' = Append(events, "terminate")
    ELSE UNCHANGED events

\* DeliverSIGHUP with a handler that runs the reload by itself, at whatever
\* statement the signal interrupts, in place of queueing an event.
DeliverSIGHUP_ReloadsInHandler ==
    /\ Alive
    /\ IF handlers["SIGHUP"] = "sighup_bfd"
       THEN /\ SignalEvents < MaxEvents
            /\ nextGen <= MaxGen
            /\ pc' = "r_set"
            /\ trace' = <<"timer_now">>
       ELSE UNCHANGED <<pc, trace>>
    /\ delivered' = "SIGHUP"
    /\ UNCHANGED <<wpid, caller, status, exitStatus, reloading, reloads,
                   sigVars, dataVars, idVars, supVars>>

\* A reload request (SIGHUP) is delivered to the worker.
DeliverSIGHUP ==
    /\ Alive
    /\ IF handlers["SIGHUP"] = "sighup_bfd"
       THEN SignalEvents < MaxEvents /\ nextGen <= MaxGen /\ sighup_bfd
       ELSE UNCHANGED events
    /\ delivered' = "SIGHUP"
    /\ UNCHANGED <<ctlVars, handlers, master, made, dispatcher, dataVars,
                   idVars, supVars>>

\* An interrupt or terminate request is delivered to the worker.
DeliverSIGTERM ==
    /\ Alive
    /\ \E sig \in {"SIGINT", "SIGTERM"} :
           /\ IF handlers[sig] = "sigend_bfd"
              THEN SignalEvents < MaxEvents /\ sigend_bfd
              ELSE UNCHANGED events
           /\ delivered' = sig
    /\ UNCHANGED <<ctlVars, handlers, master, made, dispatcher, dataVars,
                   idVars, supVars>>

\* A broken-pipe signal is delivered to the worker, which ignores it.
DeliverSIGPIPE ==
    /\ Alive
    /\ handlers["SIGPIPE"] = "ignore"
    /\ delivered' = "SIGPIPE"
    /\ UNCHANGED <<ctlVars, sigVars, dataVars, idVars, supVars>>

\* The worker process is killed from outside, or crashes.
WorkerKilled ==
    /\ Alive
    /\ pc' = "dead"
    /\ delivered' = "none"
    /\ exitStatus' = "killed"
    /\ UNCHANGED <<wpid, caller, status, reloading, reloads, trace, sigVars,
                   dataVars, idVars, supVars>>

(* ===================== worker: launch_scheduler ======================== *)

\* The run loop runs the protocol engine's start-up event.
SchedDispatcherInit ==
    /\ pc = "sched"
    /\ delivered' = "none"
    /\ events # <<>>
    /\ Head(events) = "dispatcher_init"
    /\ events' = Tail(events)
    /\ dispatcher' = bfd_data
    /\ UNCHANGED <<ctlVars, handlers, master, made, dataVars, idVars,
                   supVars>>

\* The run loop runs a queued reload event: reload_bfd_thread is entered.
SchedReload ==
    /\ pc = "sched"
    /\ delivered' = "none"
    /\ events # <<>>
    /\ Head(events) = "reload"
    /\ nextGen <= MaxGen
    /\ events' = Tail(events)
    /\ pc' = "r_set"
    /\ trace' = <<"timer_now">>
    /\ UNCHANGED <<wpid, caller, status, exitStatus, reloading, reloads,
                   handlers, master, made, dispatcher, dataVars, idVars,
                   supVars>>

\* The run loop takes a terminate event: launch_scheduler returns and
\* start_bfd_child calls stop_bfd(EXIT_SUCCESS) (line 339).
SchedTerminate ==
    /\ pc = "sched"
    /\ delivered' = "none"
    /\ events # <<>>
    /\ Head(events) = "terminate"
    /\ events' = Tail(events)
    /\ pc' = "t_sig"
    /\ status' = EXIT_SUCCESS
    /\ trace' = <<>>
    /\ UNCHANGED <<wpid, caller, exitStatus, reloading, reloads, handlers,
                   master, made, dispatcher, dataVars, idVars, supVars>>

(* ======================= worker: reload_bfd_thread ===================== *)

\* lines 172-175: SET_RELOAD
ReloadSet ==
    /\ pc = "r_set"
    /\ delivered' = "none"
    /\ pc' = "r_sig"
    /\ trace' = Append(trace, "SET_RELOAD")
    /\ reloading' = TRUE
    /\ UNCHANGED <<wpid, caller, status, exitStatus, reloads, sigVars,
                   dataVars, idVars, supVars>>

\* ReloadSignalDestroy with the call of line 178 left out.
ReloadSignalDestroy_Skipped ==
    /\ Step("r_sig", "r_disp", "signal_handler_destroy")
    /\ UNCHANGED <<sigVars, dataVars, idVars, supVars>>

\* line 178
ReloadSignalDestroy ==
    /\ Step("r_sig", "r_disp", "signal_handler_destroy")
    /\ signal_handler_destroy
    /\ UNCHANGED <<master, made, events, dispatcher, dataVars, idVars,
                   supVars>>

\* line 181: bfd_dispatcher_release(bfd_data)
ReloadDispatcherRelease ==
    /\ Step("r_disp", "r_destroy", "bfd_dispatcher_release")
    /\ dispatcher' = NULL
    /\ UNCHANGED <<handlers, master, made, events, dataVars, idVars,
                   supVars>>

\* line 182
ReloadDestroyMaster ==
    /\ Step("r_destroy", "r_make", "thread_destroy_master")
    /\ thread_destroy_master
    /\ UNCHANGED <<handlers, made, dispatcher, dataVars, idVars, supVars>>

\* ReloadMakeMaster followed by a pidfile_write, as in start_bfd_child.
ReloadMakeMaster_RewritesPidfile ==
    /\ Step("r_make", "r_global", "thread_make_master")
    /\ thread_make_master
    /\ pidfile' = wpid
    /\ pidWrites' = pidWrites + 1
    /\ UNCHANGED <<handlers, dispatcher, dataVars, logOpen, logOps,
                   stdFdOpen, wlog, supVars>>

\* line 183
ReloadMakeMaster ==
    /\ Step("r_make", "r_global", "thread_make_master")
    /\ thread_make_master
    /\ UNCHANGED <<handlers, dispatcher, dataVars, idVars, supVars>>

\* line 184: free_global_data(global_data)
ReloadFreeGlobal ==
    /\ Step("r_global", "r_buf", "free_global_data")
    /\ Release("global_data", global_data)
    /\ UNCHANGED <<global_data, bfd_data, old_bfd_data, nextGen, built,
                   acqOrder, sigVars, idVars, supVars>>

\* line 185: free_bfd_buffer()
ReloadFreeBuffer ==
    /\ Step("r_buf", "r_old", "free_bfd_buffer")
    /\ ReleaseBuffer
    /\ UNCHANGED <<global_data, bfd_data, old_bfd_data, nextGen, built,
                   acqOrder, sigVars, idVars, supVars>>

\* ReloadKeepOld releasing the protocol-engine data at once instead of
\* keeping it as old_bfd_data.
ReloadKeepOld_ReleasesAtOnce ==
    /\ Step("r_old", "r_sigchld", "free_bfd_data")
    /\ Release("bfd_data", bfd_data)
    /\ old_bfd_data' = NULL
    /\ bfd_data' = NULL
    /\ UNCHANGED <<global_data, nextGen, built, acqOrder, sigVars, idVars,
                   supVars>>

\* lines 187-188: old_bfd_data = bfd_data; bfd_data = NULL
ReloadKeepOld ==
    /\ Step("r_old", "r_sigchld", "old_bfd_data")
    /\ old_bfd_data' = bfd_data
    /\ bfd_data' = NULL
    /\ UNCHANGED <<global_data, nextGen, built, live, misfree, acqOrder,
                   sigVars, idVars, supVars>>

\* lines 191-192: signal_set(SIGCHLD, thread_child_handler, master), then
\* the call of start_bfd
ReloadSignalSet ==
    /\ pc = "r_sigchld"
    /\ delivered' = "none"
    /\ pc' = "s_global"
    /\ caller' = "reload"
    /\ trace' = Append(trace, "signal_set:SIGCHLD")
    /\ handlers' = [handlers EXCEPT !["SIGCHLD"] = "thread_child_handler"]
    /\ UNCHANGED <<wpid, status, exitStatus, reloading, reloads, master,
                   made, events, dispatcher, dataVars, idVars, supVars>>

\* line 194: free_bfd_data(old_bfd_data)
ReloadFreeOld ==
    /\ Step("r_free_old", "r_unset", "free_bfd_data:old")
    /\ Release("bfd_data", old_bfd_data)
    /\ UNCHANGED <<global_data, bfd_data, old_bfd_data, nextGen, built,
                   acqOrder, sigVars, idVars, supVars>>

\* line 195: UNSET_RELOAD
ReloadUnset ==
    /\ pc = "r_unset"
    /\ delivered' = "none"
    /\ pc' = "r_log"
    /\ trace' = Append(trace, "UNSET_RELOAD")
    /\ reloading' = FALSE
    /\ UNCHANGED <<wpid, caller, status, exitStatus, reloads, sigVars,
                   dataVars, idVars, supVars>>

\* lines 197-200: the elapsed-time log line; back to the run loop
ReloadLog ==
    /\ pc = "r_log"
    /\ delivered' = "none"
    /\ pc' = "sched"
    /\ trace' = Append(trace, "log:Reload finished")
    /\ wlog' = Append(wlog, "Reload finished")
    /\ reloads' = reloads + 1
    /\ UNCHANGED <<wpid, caller, status, exitStatus, reloading, sigVars,
                   dataVars, logOpen, logOps, stdFdOpen, pidfile, pidWrites,
                   supVars>>

(* ============================ worker: stop_bfd ========================= *)

\* stop_bfd without the signal_handler_destroy of line 64.
StopSignalDestroy_Skipped ==
    /\ Step("t_sig", "t_pid", "signal_handler_destroy")
    /\ UNCHANGED <<handlers, master, made, events, dispatcher, dataVars,
                   idVars, supVars>>

\* line 64
StopSignalDestroy ==
    /\ Step("t_sig", "t_pid", "signal_handler_destroy")
    /\ signal_handler_destroy
    /\ UNCHANGED <<master, made, events, dispatcher, dataVars, idVars,
                   supVars>>

\* line 67: pidfile_rm(bfd_pidfile)
StopPidfileRm ==
    /\ Step("t_pid", "t_global", "pidfile_rm")
    /\ pidfile' = NULL
    /\ pidWrites' = pidWrites + 1
    /\ UNCHANGED <<sigVars, dataVars, logOpen, logOps, stdFdOpen, wlog,
                   supVars>>

\* line 70: free_global_data(global_data)
StopFreeGlobal ==
    /\ Step("t_global", "t_disp", "free_global_data")
    /\ Release("global_data", global_data)
    /\ UNCHANGED <<global_data, bfd_data, old_bfd_data, nextGen, built,
                   acqOrder, sigVars, idVars, supVars>>

\* line 71: bfd_dispatcher_release(bfd_data)
StopDispatcherRelease ==
    /\ Step("t_disp", "t_bfd", "bfd_dispatcher_release")
    /\ dispatcher' = NULL
    /\ UNCHANGED <<handlers, master, made, events, dataVars, idVars,
                   supVars>>

\* StopFreeBfd calling free_bfd_buffer in place of free_bfd_data.
StopFreeBfd_FreesBuffer ==
    /\ Step("t_bfd", "t_buf", "free_bfd_buffer")
    /\ ReleaseBuffer
    /\ UNCHANGED <<global_data, bfd_data, old_bfd_data, nextGen, built,
                   acqOrder, sigVars, idVars, supVars>>

\* line 72: free_bfd_data(bfd_data)
StopFreeBfd ==
    /\ Step("t_bfd", "t_buf", "free_bfd_data")
    /\ Release("bfd_data", bfd_data)
    /\ UNCHANGED <<global_data, bfd_data, old_bfd_data, nextGen, built,
                   acqOrder, sigVars, idVars, supVars>>

\* line 73: free_bfd_buffer()
StopFreeBuffer ==
    /\ Step("t_buf", "t_master", "free_bfd_buffer")
    /\ ReleaseBuffer
    /\ UNCHANGED <<global_data, bfd_data, old_bfd_data, nextGen, built,
                   acqOrder, sigVars, idVars, supVars>>

\* line 74
StopDestroyMaster ==
    /\ Step("t_master", "t_log", "thread_destroy_master")
    /\ thread_destroy_master
    /\ UNCHANGED <<handlers, made, dispatcher, dataVars, idVars, supVars>>

\* lines 84-95: log "Stopped", close the log file and syslog
StopCloseLog ==
    /\ Step("t_log", "t_fd", "closelog")
    /\ wlog' = Append(wlog, "Stopped")
    /\ logOpen' = FALSE
    /\ logOps' = logOps + 1
    /\ UNCHANGED <<sigVars, dataVars, stdFdOpen, pidfile, pidWrites, supVars>>

\* line 96: close_std_fd()
StopCloseStdFd ==
    /\ Step("t_fd", "t_exit", "close_std_fd")
    /\ stdFdOpen' = FALSE
    /\ UNCHANGED <<sigVars, dataVars, logOpen, logOps, wlog, pidfile,
                   pidWrites, supVars>>

\* line 98: exit(status)
StopExit ==
    /\ pc = "t_exit"
    /\ delivered' = "none"
    /\ pc' = "exited"
    /\ trace' = Append(trace, "exit")
    /\ exitStatus' = status
    /\ UNCHANGED <<wpid, caller, status, reloading, reloads, sigVars,
                   dataVars, idVars, supVars>>

(* ============================ specification ============================ *)

Next ==
    \/ InitialLaunch
    \/ WatchdogTick
    \/ WorkerDeathObserved
    \/ SupervisorTerminateRequest
    \/ SupervisorStop
    \/ ChildIdentity
    \/ ChildSignalDestroy1
    \/ ChildPidfile
    \/ ChildSignalDestroy2
    \/ ChildDestroyMaster
    \/ ChildMakeMaster
    \/ ChildUnsetReload
    \/ ChildSignalInit
    \/ StartAllocGlobal
    \/ StartAllocBfd
    \/ StartAllocBuffer
    \/ StartInit
    \/ DeliverSIGHUP
    \/ DeliverSIGTERM
    \/ DeliverSIGPIPE
    \/ WorkerKilled
    \/ SchedDispatcherInit
    \/ SchedReload
    \/ SchedTerminate
    \/ ReloadSet
    \/ ReloadSignalDestroy
    \/ ReloadDispatcherRelease
    \/ ReloadDestroyMaster
    \/ ReloadMakeMaster
    \/ ReloadFreeGlobal
    \/ ReloadFreeBuffer
    \/ ReloadKeepOld
    \/ ReloadSignalSet
    \/ ReloadFreeOld
    \/ ReloadUnset
    \/ ReloadLog
    \/ StopSignalDestroy
    \/ StopPidfileRm
    \/ StopFreeGlobal
    \/ StopDispatcherRelease
    \/ StopFreeBfd
    \/ StopFreeBuffer
    \/ StopDestroyMaster
    \/ StopCloseLog
    \/ StopCloseStdFd
    \/ StopExit

Spec == Init /\ [][Next]_vars

(* ============================== properties ============================= *)

ChildPcs == {"c_identity", "c_sigdestroy1", "c_pidfile", "c_sigdestroy2",
             "c_destroy_master", "c_make_master", "c_unset_reload",
             "c_signal_init"}
StartPcs == {"s_global", "s_bfd", "s_buffer", "s_init"}
ReloadPcs == {"r_set", "r_sig", "r_disp", "r_destroy", "r_make", "r_global",
              "r_buf", "r_old", "r_sigchld", "r_free_old", "r_unset", "r_log"}
StopPcs == {"t_sig", "t_pid", "t_global", "t_disp", "t_bfd", "t_buf",
            "t_master", "t_log", "t_fd", "t_exit"}

Range(q) == {q[i] : i \in 1..Len(q)}
Last(q) == q[Len(q)]
IsPrefix(a, b) == Len(a) <= Len(b) /\ \A i \in 1..Len(a) : a[i] = b[i]
Reverse(q) == [i \in 1..Len(q) |-> q[Len(q) + 1 - i]]

\* the handlers bfd_signal_init leaves for the signals the worker routes
RoutingEstablished ==
    /\ handlers["SIGHUP"] = "sighup_bfd"
    /\ handlers["SIGINT"] = "sigend_bfd"
    /\ handlers["SIGTERM"] = "sigend_bfd"
    /\ handlers["SIGPIPE"] = "ignore"

\* a reload is under way: reload_bfd_thread itself, or start_bfd called by it
InReload == pc \in ReloadPcs \/ (pc \in StartPcs /\ caller = "reload")

\* the watcher handles a genuine death in this step
DeathHandled == deaths' = deaths + 1

(* ---- C1 ---- *)
\* C1 (as stated): the watcher attempts a launch (calls start_bfd_child) if
\* and only if respawn is enabled, the notification is a genuine death and
\* the supervisor is not already STOPPING.
C1_LaunchIffAllThree ==
    [][(respawnCalls' = respawnCalls + 1)
         <=> (DeathHandled /\ ~dont_respawn /\ supState # "STOPPING")]_vars

(* ---- C2 ---- *)
\* the runtime-state resources this step releases
ReleasedNow == live \ live'

\* C2 (as stated): in a reload nothing of generation N is released before
\* start_bfd has constructed generation N+1 in full.
C2_NewBuiltBeforeAnyRelease ==
    [][(pc \in ReloadPcs) => \A r \in ReleasedNow : r[2] < built]_vars

\* C2 (amended): reload_bfd_thread releases generation N's configuration
\* store and buffer before generation N+1 is built, and generation N's
\* protocol-engine data only after start_bfd has built generation N+1 in
\* full; at every point of a reload, and of a stop sequence entered from
\* it, some generation's protocol-engine data is allocated.
C2_OnlyEngineDataOutlivesRebuild ==
    /\ [][(pc \in ReloadPcs) =>
            \A r \in ReleasedNow :
                IF r[1] = "bfd_data" THEN r[2] < built ELSE r[2] = built]_vars
    /\ [](((InReload \/ (pc \in StopPcs /\ reloading)))
             => \E g \in 1..nextGen : <<"bfd_data", g>> \in live)

C2_Witness ==
    /\ pc = "r_unset"
    /\ built = 2
    /\ live = {<<"global_data", 2>>, <<"bfd_data", 2>>, <<"bfd_buffer", 2>>}

(* ---- C3 ---- *)
\* between the first teardown step and the creation of the new run loop
TeardownWindow == pc \in {"r_disp", "r_destroy", "r_make"}

\* C3: throughout the teardown window of a reload no signal handler is
\* registered, and no step taken in it (a signal delivery included) adds an
\* event to the run loop's queue.
C3_NoRoutingDuringTeardown ==
    /\ [](TeardownWindow => handlers = NoHandlers)
    /\ [][TeardownWindow => (events' = events \/ events' = <<>>)]_vars

C3_Witness ==
    /\ pc = "r_make"
    /\ master = "freed"
    /\ delivered = "SIGHUP"
    /\ events = <<>>

(* ---- C4 ---- *)
\* C4 (as stated): whenever the worker is back in its run loop after a
\* reload, the handlers of bfd_signal_init are registered again.
C4_RoutingReestablishedAfterReload ==
    (pc = "sched" /\ reloads > 0) => RoutingEstablished

(* ---- C5 ---- *)
PidfileWriteFailed == "pidfile_write:fail" \in Range(trace)

\* C5: a worker whose pidfile_write failed has exited with status 0 having
\* created no run loop, registered no handler, allocated no runtime state
\* and never entered the scheduler.
C5_PidfileFailureExitsCleanly ==
    PidfileWriteFailed =>
        /\ pc = "exited"
        /\ exitStatus = "0"
        /\ made = 0
        /\ master = "inherited"
        /\ handlers = NoHandlers
        /\ live = {} /\ built = 0 /\ acqOrder = <<>>
        /\ dispatcher = NULL
        /\ trace = <<"fork", "openlog", "signal_handler_destroy",
                     "pidfile_write:fail", "log:cannot write pidfile",
                     "exit">>

C5_Witness == PidfileWriteFailed /\ exitStatus = "0" /\ pidfile = NULL

(* ---- C6 ---- *)
\* C6: with respawn disabled, handling a genuine death raises SIGTERM on
\* the supervisor and logs "Exiting"; nothing is forked, no watcher is
\* registered and "Respawning" is not logged.
C6_DisabledRespawnTerminates ==
    [][(dont_respawn /\ DeathHandled) =>
            /\ supState' = "STOPPING"
            /\ exitingLogs' = exitingLogs + 1
            /\ supTrace' = <<"log:Exiting", "raise:SIGTERM", "return:0">>
            /\ respawnLogs' = respawnLogs
            /\ respawnCalls' = respawnCalls
            /\ forks' = forks /\ launches' = launches
            /\ bfd_child' = bfd_child
            /\ Len(supChildren') = Len(supChildren) - 1
            /\ Range(supChildren') \subseteq Range(supChildren)]_vars

C6_Witness ==
    /\ dont_respawn
    /\ deaths = 1
    /\ supState = "STOPPING"
    /\ exitingLogs = 1
    /\ supChildren = <<>>

(* ---- C7 ---- *)
\* at most one watcher is registered, and it watches bfd_child
OneWatcherForCurrentWorker ==
    /\ Len(supChildren) <= 1
    /\ \A i \in 1..Len(supChildren) :
           supChildren[i] = [pid |-> bfd_child, timer |-> RESPAWN_TIMER]

\* C7 (as stated): with respawn enabled every genuine death handled leads
\* to one new worker, recorded as bfd_child and registered under
\* RESPAWN_TIMER, with a "Respawning" log entry; at most one watcher is
\* registered and it is the last launched worker's.
C7_EveryDeathRelaunches ==
    /\ [][(~dont_respawn /\ DeathHandled) =>
            /\ respawnLogs' = respawnLogs + 1
            /\ launches' = launches + 1
            /\ bfd_child' = launches'
            /\ supChildren' =
                   <<[pid |-> launches', timer |-> RESPAWN_TIMER]>>]_vars
    /\ []OneWatcherForCurrentWorker

\* C7 (amended): with respawn enabled every genuine death handled leads to
\* exactly one call of start_bfd_child, with a "Respawning" log entry; when
\* its fork succeeds the new pid is recorded as bfd_child and registered
\* under RESPAWN_TIMER, and when its fork fails nothing is recorded or
\* registered; at most one watcher is registered and it is bfd_child's.
C7_EveryDeathAttemptsRelaunch ==
    /\ [][(~dont_respawn /\ DeathHandled) =>
            /\ respawnLogs' = respawnLogs + 1
            /\ respawnCalls' = respawnCalls + 1
            /\ forks' = forks + 1
            /\ IF launches' = launches + 1
               THEN /\ bfd_child' = launches'
                    /\ wpid' = launches'
                    /\ supChildren' =
                           <<[pid |-> launches', timer |-> RESPAWN_TIMER]>>
               ELSE /\ launches' = launches
                    /\ bfd_child' = bfd_child
                    /\ supChildren' = <<>>]_vars
    /\ []OneWatcherForCurrentWorker

C7_Witness ==
    /\ ~dont_respawn
    /\ deaths = 2
    /\ respawnLogs = 2
    /\ launches = 3
    /\ bfd_child = 3
    /\ supChildren = <<[pid |-> 3, timer |-> RESPAWN_TIMER]>>

(* ---- C8 ---- *)
\* C8: when the worker is back in its run loop after a reload, the elapsed
\* time has been logged, the pidfile still holds the worker's pid and has
\* been neither removed nor rewritten, and the log channel has been
\* neither closed nor reopened.
C8_ReloadKeepsIdentity ==
    (pc = "sched" /\ reloads > 0) =>
        /\ Last(trace) = "log:Reload finished"
        /\ ~reloading
        /\ built = reloads + 1
        /\ pidfile = wpid
        /\ pidWrites = 1
        /\ logOpen
        /\ logOps = 1

C8_Witness ==
    /\ pc = "sched"
    /\ reloads = 1
    /\ pidfile = wpid
    /\ Last(trace) = "log:Reload finished"

(* ---- C9 ---- *)
StopStages ==
    <<"signal_handler_destroy", "pidfile_rm", "free_global_data",
      "bfd_dispatcher_release", "free_bfd_data", "free_bfd_buffer",
      "thread_destroy_master", "closelog", "close_std_fd", "exit">>

\* C9: whichever way stop_bfd was entered, what it has done so far is a
\* prefix of the one stage sequence, and the process that leaves it has
\* run all of it and exits with the status it was given.
C9_OneStopSequence ==
    /\ pc \in StopPcs => (IsPrefix(trace, StopStages) /\ Len(trace) < 10)
    /\ (pc = "exited" /\ "pidfile_write:fail" \notin Range(trace)) =>
           /\ trace = StopStages
           /\ exitStatus = status
           /\ handlers = NoHandlers
           /\ pidfile = NULL
           /\ master = "freed"
           /\ ~logOpen
           /\ ~stdFdOpen

C9_Witness ==
    /\ pc = "exited"
    /\ exitStatus = KEEPALIVED_EXIT_FATAL
    /\ caller = "reload"
    /\ trace = StopStages

(* ---- C10 ---- *)
ReleaseStage == [s \in {"free_global_data", "free_bfd_data",
                        "free_bfd_buffer"} |->
                    CASE s = "free_global_data" -> "global_data"
                      [] s = "free_bfd_data" -> "bfd_data"
                      [] OTHER -> "bfd_buffer"]

\* the kinds the stop sequence released, in the order it released them
RelOrder ==
    LET rel == SelectSeq(trace, LAMBDA st : st \in DOMAIN ReleaseStage)
    IN  [i \in 1..Len(rel) |-> ReleaseStage[rel[i]]]

StoppedByStop == pc = "exited" /\ "pidfile_write:fail" \notin Range(trace)

\* C10 (as stated): the stop sequence releases the runtime-state resources
\* in the reverse of the order in which start_bfd acquired them.
C10_ReleaseReversesAcquisition ==
    (StoppedByStop /\ Len(acqOrder) = 3) => RelOrder = Reverse(acqOrder)

\* C10 (amended): the stop sequence releases the runtime-state resources in
\* the same order in which start_bfd acquires them: configuration store,
\* protocol-engine data, buffer.
C10_ReleaseFollowsAcquisition ==
    StoppedByStop =>
        /\ RelOrder = <<"global_data", "bfd_data", "bfd_buffer">>
        /\ IsPrefix(acqOrder, RelOrder)

C10_Witness ==
    /\ StoppedByStop
    /\ acqOrder = <<"global_data", "bfd_data", "bfd_buffer">>
    /\ RelOrder = acqOrder

(* ---- C11 ---- *)
\* the worker left through stop_bfd after start_bfd had built all of the
\* runtime state: the scheduler returned on a terminate event
CleanStop == StoppedByStop /\ Len(acqOrder) = 3

\* the worker left through stop_bfd entered from start_bfd, in the initial
\* start or in the rebuild of a reload, with only the configuration store
\* acquired: alloc_bfd_data had returned NULL
AllocFailed == StoppedByStop /\ acqOrder = <<"global_data">>

\* C11: a worker that has exited did so for exactly one of three causes;
\* its exit status is 0 exactly when the cause is a clean stop or a failure
\* to write the pidfile, and KEEPALIVED_EXIT_FATAL, which is not 0, exactly
\* when the cause is a failed allocation of the protocol-engine data during
\* the initial start or the rebuild of a reload.
C11_ExitStatusTellsCause ==
    pc = "exited" =>
        /\ CleanStop \/ PidfileWriteFailed \/ AllocFailed
        /\ exitStatus = EXIT_SUCCESS <=> (CleanStop \/ PidfileWriteFailed)
        /\ exitStatus = KEEPALIVED_EXIT_FATAL <=> AllocFailed
        /\ KEEPALIVED_EXIT_FATAL # EXIT_SUCCESS

C11_Witness ==
    /\ pc = "exited"
    /\ AllocFailed
    /\ caller = "child"
    /\ exitStatus = KEEPALIVED_EXIT_FATAL

(* ---- C12 ---- *)
\* a call of start_bfd_child whose fork failed: forks counts the calls,
\* launches the forks that succeeded
ForkHasFailed == forks > launches

\* C12: once a fork in start_bfd_child has failed, from the main program or
\* from bfd_respawn_thread, the failure is logged and the supervisor is no
\* longer running (no retry), and a running supervisor that has attempted a
\* launch always has a watcher registered for a worker.
C12_ForkFailureIsFatal ==
    /\ ForkHasFailed => supState # "RUNNING"
    /\ (ForkHasFailed /\ "fork:error" \in Range(supTrace)) =>
           "log:fork error" \in Range(supTrace)
    /\ (supState = "RUNNING" /\ forks > 0) =>
           \E i \in 1..Len(supChildren) : supChildren[i].pid = bfd_child

(* ---- C13 ---- *)
\* what bfd_respawn_thread does on a tick, as the supervisor records it
TickTrace == <<"thread_add_child", "return:0">>

\* a step of the supervisor that ends a tick: the first tick after another
\* handler changes supTrace, a tick that follows a tick is such a step too
TickStep == supTrace' = TickTrace /\ workerVars' = workerVars

\* C13: a tick leaves the registrations as they were, one watcher for the
\* same pid with RESPAWN_TIMER, launches nothing, raises no terminate and
\* keeps bfd_child; a tick taken after a tick changes nothing at all.
C13_TickOnlyRearms ==
    [][TickStep =>
          /\ supChildren' = supChildren
          /\ Len(supChildren') = 1
          /\ supChildren'[1].timer = RESPAWN_TIMER
          /\ UNCHANGED <<bfd_child, supState, launches, forks, deaths,
                         respawnCalls, respawnLogs, exitingLogs,
                         dont_respawn>>
          /\ (supTrace = TickTrace => UNCHANGED vars)]_vars

C13_Witness ==
    /\ supTrace = TickTrace
    /\ launches = 2
    /\ supChildren = <<[pid |-> bfd_child, timer |-> RESPAWN_TIMER]>>
    /\ supState = "RUNNING"

(* ---- C14 ---- *)
\* a handler that this worker process registered itself is in place
WorkerRouting == \E s \in Signals : handlers[s] \notin {"none", "inherited"}

\* the steps of the three sequences that lie after the disabling of signal
\* routing and before any handler is registered again
RoutingOffPcs ==
    {"c_destroy_master", "c_make_master", "c_unset_reload", "c_signal_init",
     "r_disp", "r_destroy", "r_make", "r_global", "r_buf", "r_old",
     "r_sigchld"} \cup (StopPcs \ {"t_sig"})

\* C14 (as stated): in the initial start, the reload and the stop sequence
\* routing is off from the first teardown step on, and a handler is
\* registered only when the run loop exists and start_bfd is not in the
\* middle of building the runtime state.
C14_RoutingLastAfterRebuild ==
    /\ pc \in RoutingOffPcs => handlers = NoHandlers
    /\ WorkerRouting => (master = "live" /\ pc \notin StartPcs)

\* C14 (amended): routing is off from the first teardown step on and a
\* handler is registered only when a run loop exists, never on a destroyed
\* one; handlers are registered before start_bfd builds the runtime state.
C14_RoutingOnlyOnLiveRunLoop ==
    /\ pc \in RoutingOffPcs => handlers = NoHandlers
    /\ WorkerRouting => master = "live"
    /\ master = "freed" => handlers = NoHandlers
    /\ (pc \in StartPcs /\ Alive) => WorkerRouting

C14_Witness ==
    /\ pc = "s_bfd"
    /\ caller = "reload"
    /\ handlers["SIGCHLD"] = "thread_child_handler"
    /\ master = "live"
    /\ bfd_data = NULL

(* ---- C15 ---- *)
Pos(q, x) == CHOOSE i \in 1..Len(q) : q[i] = x

\* a occurs in q and its first occurrence is before that of b
Precedes(q, a, b) == a \in Range(q) /\ b \in Range(q) /\ Pos(q, a) < Pos(q, b)

\* bfd_respawn_thread logs its decision before it launches or raises SIGTERM
RespawnLoggedFirst ==
    /\ (forks > 1 /\ "start_bfd_child" \in Range(supTrace)) =>
           Precedes(supTrace, "log:Respawning", "start_bfd_child")
    /\ "raise:SIGTERM" \in Range(supTrace) =>
           Precedes(supTrace, "log:Exiting", "raise:SIGTERM")

\* the worker logs the failed pidfile_write before it exits
PidfileFailureLoggedFirst ==
    (PidfileWriteFailed /\ pc = "exited") =>
        /\ Precedes(trace, "log:cannot write pidfile", "exit")
        /\ wlog = <<"cannot write pidfile">>

\* stop_bfd has been entered from start_bfd after alloc_bfd_data failed
AllocFailing == pc \in StopPcs /\ acqOrder = <<"global_data">>

\* the worker has logged a message that tells of the failed allocation: one
\* that is none of the messages it logs for other reasons
AllocFailureLogged ==
    \E i \in 1..Len(wlog) :
        wlog[i] \notin {"cannot write pidfile", "Reload finished", "Stopped"}

\* C15: the respawn decision is logged before the launch, the exit decision
\* before SIGTERM is raised, the failed pidfile_write before the worker
\* exits, and the failed allocation of the runtime state before the stop
\* sequence tears anything down.
C15_CauseLoggedBeforeEffect ==
    /\ RespawnLoggedFirst
    /\ PidfileFailureLoggedFirst
    /\ AllocFailing => AllocFailureLogged

(* ---- C16 ---- *)
\* the steps of a reload from after SET_RELOAD (line 175) to before
\* UNSET_RELOAD (line 195), start_bfd called by the reload included
FlaggedReloadPcs == (ReloadPcs \ {"r_set", "r_log"})

\* C16: the reloading flag is set at every step of a reload between
\* SET_RELOAD, which precedes the first teardown step, and UNSET_RELOAD,
\* which follows the release of the old generation; it is clear whenever
\* the worker is in its run loop and when a new worker registers its
\* handlers and builds its first generation, whatever value it inherited.
C16_ReloadingFlagSpansReload ==
    /\ (pc \in FlaggedReloadPcs \/ (pc \in StartPcs /\ caller = "reload")) =>
           reloading
    /\ pc = "r_set" => trace = <<"timer_now">>
    /\ pc = "r_unset" => "free_bfd_data:old" \in Range(trace)
    /\ pc \in {"sched", "r_log"} => ~reloading
    /\ (pc = "c_signal_init" \/ (pc \in StartPcs /\ caller = "child")) =>
           (~reloading /\ (pc = "c_signal_init" => handlers = NoHandlers))

C16_Witness ==
    /\ pc = "r_unset"
    /\ reloading
    /\ bfd_data = 2
    /\ <<"bfd_data", 1>> \notin live
    /\ <<"bfd_data", 2>> \in live

(* ---- C17 ---- *)
\* a step in which a signal is delivered to the worker and its handler runs
DeliveryStep == delivered' # "none" /\ supVars' = supVars

\* the events queued on the run loop after the handler of signal sig has run
EventsAfter(sig) ==
    CASE sig = "SIGHUP" /\ handlers[sig] = "sighup_bfd" ->
             Append(events, "reload")
      [] sig \in {"SIGINT", "SIGTERM"} /\ handlers[sig] = "sigend_bfd" ->
             Append(events, "terminate")
      [] OTHER -> events

InTransition == InReload \/ pc \in StopPcs

\* C18: a reload begins only when the run loop, idle between transitions,
\* takes a queued reload event, and the stop sequence begins only when it
\* takes a terminate event or when start_bfd fails; a worker that is
\* partway through a reload or a stop only goes on with that sequence,
\* whatever signals are delivered meanwhile, and returns to the run loop
\* only at the end of the reload.
C18_TransitionsDoNotInterleave ==
    [][/\ (pc' = "r_set" /\ pc # "r_set") =>
              (pc = "sched" /\ events # <<>> /\ Head(events) = "reload")
       /\ (pc' = "t_sig" /\ pc # "t_sig") =>
              \/ pc = "sched" /\ events # <<>> /\ Head(events) = "terminate"
              \/ pc = "s_bfd"
       /\ (InReload /\ pc' # pc) =>
              /\ pc' \in (ReloadPcs \ {"r_set"}) \cup StartPcs
                             \cup {"sched", "t_sig", "dead"}
              /\ pc' = "sched" => pc = "r_log"
       /\ (pc \in StopPcs /\ pc' # pc) =>
              pc' \in (StopPcs \ {"t_sig"}) \cup {"exited", "dead"}
       /\ (InTransition /\ delivered' # "none") => pc' = pc]_vars

C18_Witness ==
    /\ pc = "r_global"
    /\ delivered = "SIGHUP"
    /\ reloading
    /\ SignalEvents = 0

(* ---- C19 ---- *)
\* C19: every release call made by start, reload and stop is made on a
\* resource that is allocated at that moment: no call releases a resource
\* a second time or one that was never allocated.
C19_ReleaseOnlyAllocated == misfree = {}

(* ---- C20 ---- *)
\* protocol-engine data generations still allocated
LiveBfdData == {r \in live : r[1] = "bfd_data"}

\* C20: when the worker has exited through the stop sequence, every
\* generation of protocol-engine data it allocated has been released, and
\* none was released a second time; so also after a failed rebuild, for the
\* generation kept in old_bfd_data.
C20_EveryGenerationReleased ==
    StoppedByStop =>
        /\ LiveBfdData = {}
        /\ {r \in misfree : r[1] = "bfd_data" /\ r[2] # NULL} = {}

====
